---- MODULE Spec2Model ----
(***************************************************************************)
(* BrieflyAI text summarizer: the TextSummarizer facade and the            *)
(* length-reduction statistic (summarizer.py), the command-line adapter    *)
(* (summarize_cli.py), the Gradio callback (app_gradio.py) and the ROUGE   *)
(* evaluation loop (evaluate_rouge.py).                                    *)
(*                                                                         *)
(* A text is a sequence of one-character strings.  The external            *)
(* transformers pipeline is the environment: loading it succeeds or        *)
(* raises, and a call to it returns one of a few summaries or raises.      *)
(***************************************************************************)
EXTENDS Integers, Sequences, FiniteSets, TLC

VARIABLES
    app,            \* entry point being run: facade, metric, cli, gui, eval
    pc,             \* position inside that entry point
    ts,             \* the TextSummarizer object (fields of self)
    pipelineLoads,  \* model identifiers handed to transformers.pipeline(...)
    pipelineCalls,  \* calls made on self._pipeline, in order
    raised,         \* exception that left the running call ("None" if none)
    input_text,     \* text handed to summarize / first argument of the metric
    summary,        \* text returned by summarize / second argument of the metric
    stats,          \* result of compute_length_reduction (<<>> until computed)
    cmd,            \* the command line as typed: its flag/value pairs, its positionals,
                    \* a last flag without value if any, and the whole line
    argv,           \* sys.argv
    model_name,     \* summarize_cli.py globals
    max_length,
    min_length,
    output_file,
    exit_status,    \* -1 while the process runs
    stdout,         \* lines printed, by kind
    written,        \* files written through --out: <<path, content>>
    gui_in,         \* arguments of summarize_interface
    file_text,      \* contents read from the input file (NoText if none was read)
    gui_out,        \* value returned by summarize_interface
    limit,          \* args.limit of evaluate_rouge.py
    samples,        \* the slice of SAMPLE_DATA selected by main
    predictions,
    references

vars == <<app, pc, ts, pipelineLoads, pipelineCalls, raised, input_text, summary,
          stats, cmd, argv, model_name, max_length, min_length, output_file,
          exit_status, stdout, written, gui_in, file_text, gui_out, limit,
          samples, predictions, references>>

facadeVars == <<ts, pipelineLoads, pipelineCalls>>
cliVars    == <<cmd, argv, model_name, max_length, min_length, output_file,
                exit_status, stdout, written>>
guiVars    == <<gui_in, gui_out>>
evalVars   == <<limit, samples, predictions, references>>

----------------------------------------------------------------------------
(* Bounds *)

MaxLen == 4          \* longest text drawn as an input
MaxArgs == 5         \* most tokens typed after the script name
MaxLimit == 4        \* --limit ranges over -MaxLimit .. MaxLimit

----------------------------------------------------------------------------
(* Texts *)

Whitespace == {" ", "\n"}
Alphabet == {" ", "\n", "a"}

RECURSIVE SeqsUpTo(_, _)
SeqsUpTo(S, n) ==
    IF n = 0 THEN {<<>>}
    ELSE LET shorter == SeqsUpTo(S, n - 1)
         IN  shorter \cup {Append(s, x) : s \in {t \in shorter : Len(t) = n - 1}, x \in S}

Texts == SeqsUpTo(Alphabet, MaxLen)

\* stands for Python's None where a text is expected
NoText == <<"<None>">>

\* str.strip(): drop leading and trailing whitespace
RECURSIVE LStrip(_)
LStrip(s) == IF s # <<>> /\ Head(s) \in Whitespace THEN LStrip(Tail(s)) ELSE s

RECURSIVE RStrip(_)
RStrip(s) ==
    IF s # <<>> /\ s[Len(s)] \in Whitespace THEN RStrip(SubSeq(s, 1, Len(s) - 1)) ELSE s

Strip(s) == RStrip(LStrip(s))

\* str.split() with no argument: the maximal runs of non-whitespace characters
RECURSIVE SplitFrom(_, _, _)
SplitFrom(s, cur, acc) ==
    IF s = <<>> THEN (IF cur = <<>> THEN acc ELSE Append(acc, cur))
    ELSE IF Head(s) \in Whitespace
         THEN SplitFrom(Tail(s), <<>>, IF cur = <<>> THEN acc ELSE Append(acc, cur))
         ELSE SplitFrom(Tail(s), Append(cur, Head(s)), acc)

Split(s) == SplitFrom(s, <<>>, <<>>)

\* variant of the blank check that forgets strip()
IsBlankUnstripped(t) == t = NoText \/ t = <<>>

\* "not text or not text.strip()"
IsBlank(t) == t = NoText \/ t = <<>> \/ Strip(t) = <<>>

----------------------------------------------------------------------------
(* The external summarization pipeline *)

Summaries == {<<>>, <<"a">>, <<"a", " ", "a", " ", "a">>}

PipelineOutcomes ==
    {[ok |-> FALSE, summary_text |-> NoText]}
        \cup {[ok |-> TRUE, summary_text |-> s] : s \in Summaries}

----------------------------------------------------------------------------
(* summarizer.py: TextSummarizer *)

DEFAULT_MODEL == "facebook/bart-large-cnn"

NoSummarizer ==
    [built |-> FALSE, model_name |-> DEFAULT_MODEL, max_length |-> 60,
     min_length |-> 20, do_sample |-> FALSE]

\* __init__: stores the fields, then loads the pipeline (which may raise)
TextSummarizerInit(mn, maxl, minl, ds, loadOk) ==
    [self   |-> [built |-> loadOk, model_name |-> mn, max_length |-> maxl,
                 min_length |-> minl, do_sample |-> ds],
     loads  |-> Append(pipelineLoads, mn),
     raised |-> IF loadOk THEN "None" ELSE "OSError: cannot load model"]

EmptyInputError == "ValueError: Input text is empty."

\* summarize: the blank check, then one call of self._pipeline
Summarize(self, text, calls, outcome) ==
    IF IsBlank(text)
    THEN [raised |-> EmptyInputError, value |-> NoText, calls |-> calls]
    ELSE LET call == [text |-> text, max_length |-> self.max_length,
                      min_length |-> self.min_length, do_sample |-> self.do_sample,
                      truncation |-> TRUE]
         IN  IF outcome.ok
             THEN [raised |-> "None", value |-> outcome.summary_text,
                   calls |-> Append(calls, call)]
             ELSE [raised |-> "RuntimeError: pipeline failed", value |-> NoText,
                   calls |-> Append(calls, call)]

----------------------------------------------------------------------------
(* summarizer.py: compute_length_reduction *)

\* a float is kept as an exact fraction <<numerator, denominator>>, denominator > 0
Frac(n, d) == <<n, d>>
FracSub(x, y) == <<x[1] * y[2] - y[1] * x[2], x[2] * y[2]>>
FracEq(x, y) == x[1] * y[2] = y[1] * x[2]
FracLt(x, y) == x[1] * y[2] < y[1] * x[2]

\* variant that returns the ratio itself, not one minus the ratio
compute_length_ratio(original, summ) ==
    LET orig_len == Len(Split(original))
        sum_len  == IF summ # <<>> THEN Len(Split(summ)) ELSE 0
    IN  IF orig_len = 0
        THEN <<0, sum_len, Frac(0, 1)>>
        ELSE <<orig_len, sum_len, Frac(sum_len, orig_len)>>

compute_length_reduction(original, summ) ==
    LET orig_len == Len(Split(original))
        sum_len  == IF summ # <<>> THEN Len(Split(summ)) ELSE 0
    IN  IF orig_len = 0
        THEN <<0, sum_len, Frac(0, 1)>>
        ELSE <<orig_len, sum_len, FracSub(Frac(1, 1), Frac(sum_len, orig_len))>>

----------------------------------------------------------------------------
(* Values of the variables an entry point does not use *)

NoCmd == [pairs |-> {}, positionals |-> <<>>, dangling |-> <<>>, line |-> <<>>]
NoGuiIn ==
    [text |-> NoText, file_path |-> "", model_choice |-> <<>>, max_len |-> 0,
     min_len |-> 0, creative_mode |-> FALSE]
NoGuiOut ==
    [returned |-> FALSE, summary |-> NoText, message |-> "", stats |-> <<>>,
     visible |-> FALSE]

FacadeIdle ==
    /\ ts = NoSummarizer
    /\ pipelineLoads = <<>>
    /\ pipelineCalls = <<>>
    /\ raised = "None"

CliIdle ==
    /\ cmd = NoCmd
    /\ argv = <<>>
    /\ model_name = DEFAULT_MODEL
    /\ max_length = 60
    /\ min_length = 20
    /\ output_file = NoText
    /\ exit_status = -1
    /\ stdout = <<>>
    /\ written = <<>>

GuiIdle ==
    /\ gui_in = NoGuiIn
    /\ gui_out = NoGuiOut

EvalIdle ==
    /\ limit = 0
    /\ samples = <<>>
    /\ predictions = <<>>
    /\ references = <<>>

----------------------------------------------------------------------------
(* The facade on its own: one object, one summarize call *)

FacadeConfigs ==
    [model_name : {DEFAULT_MODEL, "t5-small"}, max_length : {60, 80},
     min_length : {20}, do_sample : BOOLEAN]

InitFacade ==
    /\ app = "facade"
    /\ pc = "new"
    /\ FacadeIdle
    /\ input_text \in Texts
    /\ summary = NoText
    /\ stats = <<>>
    /\ file_text = NoText
    /\ CliIdle /\ GuiIdle /\ EvalIdle

FacadeNew ==
    /\ app = "facade" /\ pc = "new"
    /\ \E c \in FacadeConfigs, loadOk \in BOOLEAN :
         LET r == TextSummarizerInit(c.model_name, c.max_length, c.min_length,
                                     c.do_sample, loadOk)
         IN  /\ ts' = r.self
             /\ pipelineLoads' = r.loads
             /\ raised' = r.raised
             /\ pc' = IF loadOk THEN "ready" ELSE "done"
    /\ UNCHANGED <<app, pipelineCalls, input_text, summary, stats, file_text>>
    /\ UNCHANGED <<cliVars, guiVars, evalVars>>

FacadeSummarize ==
    /\ app = "facade" /\ pc = "ready"
    /\ \E outcome \in PipelineOutcomes :
         LET r == Summarize(ts, input_text, pipelineCalls, outcome)
         IN  /\ pipelineCalls' = r.calls
             /\ raised' = r.raised
             /\ summary' = r.value
    /\ pc' = "done"
    /\ UNCHANGED <<app, ts, pipelineLoads, input_text, stats, file_text>>
    /\ UNCHANGED <<cliVars, guiVars, evalVars>>

NextFacade == FacadeNew \/ FacadeSummarize

SpecFacade == InitFacade /\ [][NextFacade]_vars

----------------------------------------------------------------------------
(* The metric on its own *)

InitMetric ==
    /\ app = "metric"
    /\ pc = "call"
    /\ FacadeIdle
    /\ input_text \in Texts
    /\ summary \in Texts
    /\ stats = <<>>
    /\ file_text = NoText
    /\ CliIdle /\ GuiIdle /\ EvalIdle

MetricCompute ==
    /\ app = "metric" /\ pc = "call"
    /\ stats' = compute_length_reduction(input_text, summary)
    /\ pc' = "done"
    /\ UNCHANGED <<app, raised, input_text, summary, file_text>>
    /\ UNCHANGED <<facadeVars, cliVars, guiVars, evalVars>>

NextMetric == MetricCompute

SpecMetric == InitMetric /\ [][NextMetric]_vars

----------------------------------------------------------------------------
(* String helpers of the adapters *)

UpperCase == <<"A", "B", "C", "D", "E", "F", "G", "H", "I", "J", "K", "L", "M",
               "N", "O", "P", "Q", "R", "S", "T", "U", "V", "W", "X", "Y", "Z">>
LowerCase == <<"a", "b", "c", "d", "e", "f", "g", "h", "i", "j", "k", "l", "m",
               "n", "o", "p", "q", "r", "s", "t", "u", "v", "w", "x", "y", "z">>

LowerChar(ch) ==
    IF \E i \in 1..26 : UpperCase[i] = ch
    THEN LowerCase[CHOOSE i \in 1..26 : UpperCase[i] = ch]
    ELSE ch

\* str.lower()
Lower(s) == [i \in 1..Len(s) |-> LowerChar(s[i])]

\* str.endswith(suffix)
EndsWith(s, suffix) ==
    /\ Len(s) >= Len(suffix)
    /\ SubSeq(s, Len(s) - Len(suffix) + 1, Len(s)) = suffix

\* sep.join(parts)
RECURSIVE StrJoin(_, _)
StrJoin(sep, parts) ==
    IF parts = <<>> THEN <<>>
    ELSE IF Len(parts) = 1 THEN parts[1]
    ELSE parts[1] \o sep \o StrJoin(sep, Tail(parts))

Digits == <<"0", "1", "2", "3", "4", "5", "6", "7", "8", "9">>
IsDigit(ch) == \E i \in 1..10 : Digits[i] = ch
DigitValue(ch) == (CHOOSE i \in 1..10 : Digits[i] = ch) - 1

RECURSIVE DigitsValue(_, _)
DigitsValue(s, acc) ==
    IF s = <<>> THEN acc ELSE DigitsValue(Tail(s), 10 * acc + DigitValue(Head(s)))

\* int(token): surrounding whitespace, an optional sign, then decimal digits;
\* anything else is a ValueError
ParseInt(tok) ==
    LET s      == Strip(tok)
        signed == s # <<>> /\ s[1] \in {"+", "-"}
        body   == IF signed THEN Tail(s) ELSE s
    IN  IF body # <<>> /\ \A i \in 1..Len(body) : IsDigit(body[i])
        THEN [ok |-> TRUE,
              value |-> IF signed /\ s[1] = "-" THEN 0 - DigitsValue(body, 0)
                        ELSE DigitsValue(body, 0)]
        ELSE [ok |-> FALSE, value |-> 0]

\* x in list
Contains(s, x) == \E i \in 1..Len(s) : s[i] = x

\* list.index(x): the first position holding x
Index(s, x) == CHOOSE i \in 1..Len(s) : s[i] = x /\ \A j \in 1..(i - 1) : s[j] # x

\* variant that deletes the flag and leaves its value behind
DelFlagOnly(s, i) == SubSeq(s, 1, i - 1) \o SubSeq(s, i + 1, Len(s))

\* del list[i:i+2]
DelSlice(s, i) == SubSeq(s, 1, i - 1) \o SubSeq(s, i + 2, Len(s))

----------------------------------------------------------------------------
(* Model keywords and identifiers *)

KW_bart       == <<"b", "a", "r", "t">>
KW_distilbart == <<"d", "i", "s", "t", "i", "l", "b", "a", "r", "t">>
KW_t5         == <<"t", "5">>
Keywords      == {KW_bart, KW_distilbart, KW_t5}

ModelIdentifiers ==
    {"facebook/bart-large-cnn", "sshleifer/distilbart-cnn-12-6", "t5-small"}

----------------------------------------------------------------------------
(* summarize_cli.py: tokens of the command line *)

PROG       == <<"summarize_cli.py">>
FLAG_MODEL == <<"-", "-", "m", "o", "d", "e", "l">>
FLAG_MAX   == <<"-", "-", "m", "a", "x">>
FLAG_MIN   == <<"-", "-", "m", "i", "n">>
FLAG_OUT   == <<"-", "-", "o", "u", "t">>
Flags      == {FLAG_MODEL, FLAG_MAX, FLAG_MIN, FLAG_OUT}

TOK_DistilBART == <<"D", "i", "s", "t", "i", "l", "B", "A", "R", "T">>
TOK_T5     == <<"T", "5">>
TOK_gpt    == <<"g", "p", "t">>
TOK_80     == <<"8", "0">>
TOK_10     == <<"1", "0">>
TOK_abc    == <<"a", "b", "c">>
TOK_out    == <<"o", "u", "t">>
TOK_hello  == <<"h", "e", "l", "l", "o">>
TOK_world  == <<"w", "o", "r", "l", "d">>
TOK_this   == <<"t", "h", "i", "s">>
TOK_is     == <<"i", "s">>
TOK_a      == <<"a">>
TOK_test   == <<"t", "e", "s", "t">>
TOK_blank  == <<" ">>
TOK_in_txt == <<"i", "n", ".", "T", "X", "T">>
DOT_TXT    == <<".", "t", "x", "t">>

ValuesOf(f) ==
    CASE f = FLAG_MODEL -> {KW_bart, TOK_DistilBART, TOK_T5, TOK_gpt}
      [] f = FLAG_MAX   -> {TOK_80, TOK_abc}
      [] f = FLAG_MIN   -> {TOK_10, TOK_abc}
      [] f = FLAG_OUT   -> {TOK_out, FLAG_MAX}

PosTokens == {TOK_hello, TOK_blank, TOK_in_txt}

\* "--max 80 hello world this is a test"
ScenarioWords == <<TOK_hello, TOK_world, TOK_this, TOK_is, TOK_a, TOK_test>>
ScenarioPairs == {<<FLAG_MAX, TOK_80>>}
ScenarioLine  == <<PROG, FLAG_MAX, TOK_80>> \o ScenarioWords

AllPairs == {<<f, v>> : f \in Flags, v \in UNION {ValuesOf(g) : g \in Flags}}
PairSets ==
    {P \in SUBSET {p \in AllPairs : p[2] \in ValuesOf(p[1])} :
        /\ 2 * Cardinality(P) <= MaxArgs
        /\ \A p \in P, q \in P : p[1] = q[1] => p = q}

FlagsOf(P) == {p[1] : p \in P}

\* what is typed, before it is laid out: flag/value pairs (each flag at most once),
\* positional tokens, and possibly one last flag with nothing after it
CmdParts ==
    UNION {UNION {{[pairs |-> P, positionals |-> pos, dangling |-> d] :
                      pos \in SeqsUpTo(PosTokens, MaxArgs - 2 * Cardinality(P) - Len(d))} :
                  d \in {<<>>} \cup {<<f>> : f \in {g \in Flags \ FlagsOf(P) :
                                                       2 * Cardinality(P) < MaxArgs}}} :
           P \in PairSets}
        \cup {[pairs |-> ScenarioPairs, positionals |-> ScenarioWords, dangling |-> <<>>]}

\* the orders in which the pairs P can be placed among the positionals pos
RECURSIVE Interleave(_, _)
Interleave(P, pos) ==
    IF P = {} THEN {pos}
    ELSE (IF pos = <<>> THEN {}
          ELSE {<<Head(pos)>> \o r : r \in Interleave(P, Tail(pos))})
         \cup UNION {{<<p[1], p[2]>> \o r : r \in Interleave(P \ {p}, pos)} : p \in P}

Arrangements(c) ==
    {<<PROG>> \o body \o c.dangling : body \in Interleave(c.pairs, c.positionals)}

\* every command line typed
CmdLines ==
    UNION {{[pairs |-> c.pairs, positionals |-> c.positionals, dangling |-> c.dangling,
             line |-> a] : a \in Arrangements(c)} : c \in CmdParts}

----------------------------------------------------------------------------
(* summarize_cli.py: the sequential scans of sys.argv *)

CliStart(a) ==
    [argv |-> a, model_name |-> DEFAULT_MODEL, max_length |-> 60, min_length |-> 20,
     output_file |-> NoText, exit_status |-> -1, stdout |-> <<>>]

\* print(msg); sys.exit(1)
CliExit(c, msg) == [c EXCEPT !.exit_status = 1, !.stdout = Append(@, msg)]

\* lines 12-32
ScanModel(c) ==
    IF ~Contains(c.argv, FLAG_MODEL) THEN c
    ELSE LET model_index == Index(c.argv, FLAG_MODEL)
         IN  IF model_index + 1 > Len(c.argv)
             THEN CliExit(c, "Usage: --model <bart|distilbart|t5>")
             ELSE LET selected_model == Lower(c.argv[model_index + 1])
                      rest == DelSlice(c.argv, model_index)
                  IN  IF selected_model = KW_bart
                      THEN [c EXCEPT !.model_name = "facebook/bart-large-cnn",
                                     !.argv = rest]
                      ELSE IF selected_model = KW_distilbart
                      THEN [c EXCEPT !.model_name = "sshleifer/distilbart-cnn-12-6",
                                     !.argv = rest]
                      ELSE IF selected_model = KW_t5
                      THEN [c EXCEPT !.model_name = "t5-small", !.argv = rest]
                      ELSE CliExit(c, "Unknown model")

\* variant that keeps the default on a malformed value instead of exiting
ScanMaxLenient(c) ==
    IF ~Contains(c.argv, FLAG_MAX) THEN c
    ELSE LET max_index == Index(c.argv, FLAG_MAX)
         IN  IF max_index + 1 > Len(c.argv)
             THEN CliExit(c, "Usage: --max <integer>")
             ELSE LET n == ParseInt(c.argv[max_index + 1])
                  IN  [c EXCEPT !.max_length = IF n.ok THEN n.value ELSE @,
                                !.argv = DelSlice(c.argv, max_index)]

\* lines 35-45
ScanMax(c) ==
    IF ~Contains(c.argv, FLAG_MAX) THEN c
    ELSE LET max_index == Index(c.argv, FLAG_MAX)
         IN  IF max_index + 1 > Len(c.argv)
             THEN CliExit(c, "Usage: --max <integer>")
             ELSE LET n == ParseInt(c.argv[max_index + 1])
                  IN  IF n.ok
                      THEN [c EXCEPT !.max_length = n.value,
                                     !.argv = DelSlice(c.argv, max_index)]
                      ELSE CliExit(c, "Usage: --max <integer>")

\* lines 48-58
ScanMin(c) ==
    IF ~Contains(c.argv, FLAG_MIN) THEN c
    ELSE LET min_index == Index(c.argv, FLAG_MIN)
         IN  IF min_index + 1 > Len(c.argv)
             THEN CliExit(c, "Usage: --min <integer>")
             ELSE LET n == ParseInt(c.argv[min_index + 1])
                  IN  IF n.ok
                      THEN [c EXCEPT !.min_length = n.value,
                                     !.argv = DelSlice(c.argv, min_index)]
                      ELSE CliExit(c, "Usage: --min <integer>")

\* lines 61-71
ScanOut(c) ==
    IF ~Contains(c.argv, FLAG_OUT) THEN c
    ELSE LET out_index == Index(c.argv, FLAG_OUT)
         IN  IF out_index + 1 > Len(c.argv)
             THEN CliExit(c, "Usage: --out <output_filename>")
             ELSE [c EXCEPT !.output_file = c.argv[out_index + 1],
                            !.argv = DelSlice(c.argv, out_index)]

\* lines 75-79
CheckInput(c) ==
    IF Len(c.argv) < 2 THEN CliExit(c, "Usage: python summarize_cli.py ...") ELSE c

\* line 81
ArgText(a) == StrJoin(<<>>, SubSeq(a, 2, Len(a)))

\* line 86, without the os.path.isfile test
LooksLikeTxtFile(a) == Len(a) = 2 /\ EndsWith(Lower(a[2]), DOT_TXT)

\* sys.exit(1) was called
Exited(c) == c.exit_status # -1

\* lines 12-79 on a given sys.argv
ParseArgs(a) ==
    LET c1 == ScanModel(CliStart(a))
        c2 == IF Exited(c1) THEN c1 ELSE ScanMax(c1)
        c3 == IF Exited(c2) THEN c2 ELSE ScanMin(c2)
        c4 == IF Exited(c3) THEN c3 ELSE ScanOut(c3)
    IN  IF Exited(c4) THEN c4 ELSE CheckInput(c4)

----------------------------------------------------------------------------
(* summarize_cli.py: the script, top to bottom *)

\* contents an input file may hold
FileTexts == {<<" ", "\n">>, <<"a", " ", "a", "\n">>}

InitCli ==
    /\ app = "cli"
    /\ pc = "model"
    /\ FacadeIdle
    /\ input_text = NoText
    /\ summary = NoText
    /\ stats = <<>>
    /\ file_text = NoText
    /\ cmd \in CmdLines
    /\ argv = cmd.line
    /\ model_name = DEFAULT_MODEL
    /\ max_length = 60
    /\ min_length = 20
    /\ output_file = NoText
    /\ exit_status = -1
    /\ stdout = <<>>
    /\ written = <<>>
    /\ GuiIdle /\ EvalIdle

CliState ==
    [argv |-> argv, model_name |-> model_name, max_length |-> max_length,
     min_length |-> min_length, output_file |-> output_file,
     exit_status |-> exit_status, stdout |-> stdout]

\* one scan: its effect on the globals, and on to the next scan unless it exited
CliScan(here, r, next) ==
    /\ app = "cli" /\ pc = here
    /\ argv' = r.argv
    /\ model_name' = r.model_name
    /\ max_length' = r.max_length
    /\ min_length' = r.min_length
    /\ output_file' = r.output_file
    /\ exit_status' = r.exit_status
    /\ stdout' = r.stdout
    /\ pc' = IF Exited(r) THEN "done" ELSE next
    /\ UNCHANGED <<app, raised, input_text, summary, stats, file_text, cmd, written>>
    /\ UNCHANGED <<facadeVars, guiVars, evalVars>>

CliModel == CliScan("model", ScanModel(CliState), "max")
CliMax   == CliScan("max", ScanMax(CliState), "min")
CliMin   == CliScan("min", ScanMin(CliState), "out")
CliOut   == CliScan("out", ScanOut(CliState), "check")
CliCheck == CliScan("check", CheckInput(CliState), "resolve")

\* an exception nobody catches: traceback on stderr, exit status 1
CliCrash(exc) ==
    /\ raised' = exc
    /\ exit_status' = 1
    /\ pc' = "done"

\* lines 81-93: a lone existing *.txt argument is read, anything else is the text
CliResolve ==
    /\ app = "cli" /\ pc = "resolve"
    /\ \E isfile \in BOOLEAN, readable \in BOOLEAN, contents \in FileTexts :
         IF LooksLikeTxtFile(argv) /\ isfile
         THEN /\ stdout' = Append(stdout, "Reading text from file")
              /\ IF readable
                 THEN /\ input_text' = contents
                      /\ file_text' = contents
                      /\ pc' = "construct"
                      /\ UNCHANGED <<raised, exit_status>>
                 ELSE /\ CliCrash("OSError: cannot read file")
                      /\ UNCHANGED <<input_text, file_text>>
         ELSE /\ input_text' = ArgText(argv)
              /\ pc' = "construct"
              /\ UNCHANGED <<raised, exit_status, stdout, file_text>>
    /\ UNCHANGED <<app, summary, stats, cmd, argv, model_name, max_length, min_length,
                   output_file, written>>
    /\ UNCHANGED <<facadeVars, guiVars, evalVars>>

\* lines 97-102
CliConstruct ==
    /\ app = "cli" /\ pc = "construct"
    /\ \E loadOk \in BOOLEAN :
         LET r == TextSummarizerInit(model_name, max_length, min_length, FALSE, loadOk)
         IN  /\ ts' = r.self
             /\ pipelineLoads' = r.loads
             /\ IF loadOk
                THEN pc' = "summarize" /\ UNCHANGED <<raised, exit_status>>
                ELSE CliCrash(r.raised)
    /\ UNCHANGED <<app, pipelineCalls, input_text, summary, stats, file_text, cmd, argv,
                   model_name, max_length, min_length, output_file, stdout, written>>
    /\ UNCHANGED <<guiVars, evalVars>>

\* line 105
CliSummarize ==
    /\ app = "cli" /\ pc = "summarize"
    /\ \E outcome \in PipelineOutcomes :
         LET r == Summarize(ts, input_text, pipelineCalls, outcome)
         IN  /\ pipelineCalls' = r.calls
             /\ summary' = r.value
             /\ IF r.raised = "None"
                THEN pc' = "stats" /\ UNCHANGED <<raised, exit_status>>
                ELSE CliCrash(r.raised)
    /\ UNCHANGED <<app, ts, pipelineLoads, input_text, stats, file_text, cmd, argv,
                   model_name, max_length, min_length, output_file, stdout, written>>
    /\ UNCHANGED <<guiVars, evalVars>>

\* lines 106-112
CliStats ==
    /\ app = "cli" /\ pc = "stats"
    /\ stats' = compute_length_reduction(input_text, summary)
    /\ stdout' = Append(stdout, "=== STATS ===")
    /\ pc' = "write"
    /\ UNCHANGED <<app, raised, input_text, summary, file_text, cmd, argv, model_name,
                   max_length, min_length, output_file, exit_status, written>>
    /\ UNCHANGED <<facadeVars, guiVars, evalVars>>

\* variant without the try/except: a failed write leaves the script as an exception
WriteSummaryUncaught(out, summ, writable, files, printed) ==
    IF out # NoText /\ out # <<>>
    THEN IF writable
         THEN [written |-> Append(files, <<out, summ>>),
               stdout |-> Append(printed, "Summary saved to"), raised |-> "None"]
         ELSE [written |-> files, stdout |-> printed,
               raised |-> "OSError: cannot write file"]
    ELSE [written |-> files, stdout |-> printed, raised |-> "None"]

\* lines 116-123: the write of the --out file inside try/except
WriteSummary(out, summ, writable, files, printed) ==
    IF out # NoText /\ out # <<>>
    THEN IF writable
         THEN [written |-> Append(files, <<out, summ>>),
               stdout |-> Append(printed, "Summary saved to"), raised |-> "None"]
         ELSE [written |-> files,
               stdout |-> Append(printed, "Error writing to file"), raised |-> "None"]
    ELSE [written |-> files, stdout |-> printed, raised |-> "None"]

CliWrite ==
    /\ app = "cli" /\ pc = "write"
    /\ \E writable \in BOOLEAN :
         LET r == WriteSummary(output_file, summary, writable, written, stdout)
         IN  /\ written' = r.written
             /\ stdout' = r.stdout
             /\ IF r.raised = "None"
                THEN pc' = "summary" /\ UNCHANGED <<raised, exit_status>>
                ELSE CliCrash(r.raised)
    /\ UNCHANGED <<app, input_text, summary, stats, file_text, cmd, argv,
                   model_name, max_length, min_length, output_file>>
    /\ UNCHANGED <<facadeVars, guiVars, evalVars>>

\* lines 125-126, then the script ends
CliPrintSummary ==
    /\ app = "cli" /\ pc = "summary"
    /\ stdout' = Append(stdout, "=== SUMMARY ===")
    /\ exit_status' = 0
    /\ pc' = "done"
    /\ UNCHANGED <<app, raised, input_text, summary, stats, file_text, cmd, argv,
                   model_name, max_length, min_length, output_file, written>>
    /\ UNCHANGED <<facadeVars, guiVars, evalVars>>

NextCli ==
    \/ CliModel \/ CliMax \/ CliMin \/ CliOut \/ CliCheck
    \/ CliResolve \/ CliConstruct \/ CliSummarize
    \/ CliStats \/ CliWrite \/ CliPrintSummary

SpecCli == InitCli /\ [][NextCli]_vars

----------------------------------------------------------------------------
(* app_gradio.py: build_model_name and summarize_interface *)

\* variant that compares the keyword without lower()
build_model_name_cased(choice) ==
    IF choice = KW_bart THEN "facebook/bart-large-cnn"
    ELSE IF choice = KW_distilbart THEN "sshleifer/distilbart-cnn-12-6"
    ELSE IF choice = KW_t5 THEN "t5-small"
    ELSE "facebook/bart-large-cnn"

build_model_name(choice) ==
    LET c == Lower(choice)
    IN  IF c = KW_bart THEN "facebook/bart-large-cnn"
        ELSE IF c = KW_distilbart THEN "sshleifer/distilbart-cnn-12-6"
        ELSE IF c = KW_t5 THEN "t5-small"
        ELSE "facebook/bart-large-cnn"

GuiChoices == {KW_bart, TOK_DistilBART, TOK_T5, TOK_gpt, <<>>}
UPLOAD == "/tmp/gradio/upload.txt"

InitGui ==
    /\ app = "gui"
    /\ pc = "source"
    /\ FacadeIdle
    /\ input_text = NoText
    /\ summary = NoText
    /\ stats = <<>>
    /\ file_text = NoText
    /\ gui_in \in [text : {NoText} \cup Texts, file_path : {"", UPLOAD},
                   model_choice : GuiChoices, max_len : {30, 120}, min_len : {40},
                   creative_mode : BOOLEAN]
    /\ gui_out = NoGuiOut
    /\ CliIdle /\ EvalIdle

\* return <first output>, <stats>, gr.update(visible=...)
GuiReturnError(msg) ==
    gui_out' = [returned |-> TRUE, summary |-> NoText, message |-> msg,
                stats |-> <<>>, visible |-> FALSE]

\* variant that falls back to the text box when the file gives nothing usable
SourceTextFallback(text, file_path, readable, contents) ==
    IF file_path # "" /\ readable /\ Strip(contents) # <<>>
    THEN [error |-> "", text_content |-> contents]
    ELSE [error |-> "",
          text_content |-> IF text \in {NoText, <<>>} THEN <<>> ELSE text]

\* lines 48-56: the file, when one is given, else the text box ("text or ''")
SourceText(text, file_path, readable, contents) ==
    IF file_path # ""
    THEN IF readable
         THEN [error |-> "", text_content |-> contents]
         ELSE [error |-> "Error reading file", text_content |-> <<>>]
    ELSE [error |-> "",
          text_content |-> IF text \in {NoText, <<>>} THEN <<>> ELSE text]

\* lines 48-60: the source, then the blank check
GuiSource ==
    /\ app = "gui" /\ pc = "source"
    /\ \E readable \in BOOLEAN, contents \in FileTexts \cup {<<>>} :
         LET src == SourceText(gui_in.text, gui_in.file_path, readable, contents)
         IN  /\ file_text' = IF gui_in.file_path # "" /\ readable THEN contents ELSE NoText
             /\ IF src.error # ""
                THEN /\ GuiReturnError(src.error)
                     /\ pc' = "done"
                     /\ UNCHANGED input_text
                ELSE IF Strip(src.text_content) = <<>>
                THEN /\ GuiReturnError("Please enter some text or upload a .txt file.")
                     /\ pc' = "done"
                     /\ UNCHANGED input_text
                ELSE /\ input_text' = src.text_content
                     /\ pc' = "construct"
                     /\ UNCHANGED gui_out
    /\ UNCHANGED <<app, raised, summary, stats, gui_in>>
    /\ UNCHANGED <<facadeVars, cliVars, evalVars>>

\* lines 63-71; an exception of the constructor leaves summarize_interface
GuiConstruct ==
    /\ app = "gui" /\ pc = "construct"
    /\ \E loadOk \in BOOLEAN :
         LET r == TextSummarizerInit(build_model_name(gui_in.model_choice),
                                     gui_in.max_len, gui_in.min_len,
                                     gui_in.creative_mode, loadOk)
         IN  /\ ts' = r.self
             /\ pipelineLoads' = r.loads
             /\ raised' = r.raised
             /\ pc' = IF loadOk THEN "summarize" ELSE "done"
    /\ UNCHANGED <<app, pipelineCalls, input_text, summary, stats, file_text>>
    /\ UNCHANGED <<cliVars, guiVars, evalVars>>

\* line 74; an exception of summarize leaves summarize_interface
GuiSummarize ==
    /\ app = "gui" /\ pc = "summarize"
    /\ \E outcome \in PipelineOutcomes :
         LET r == Summarize(ts, input_text, pipelineCalls, outcome)
         IN  /\ pipelineCalls' = r.calls
             /\ summary' = r.value
             /\ raised' = r.raised
             /\ pc' = IF r.raised = "None" THEN "return" ELSE "done"
    /\ UNCHANGED <<app, ts, pipelineLoads, input_text, stats, file_text>>
    /\ UNCHANGED <<cliVars, guiVars, evalVars>>

\* lines 77-87
GuiReturn ==
    /\ app = "gui" /\ pc = "return"
    /\ stats' = compute_length_reduction(input_text, summary)
    /\ gui_out' = [returned |-> TRUE, summary |-> summary, message |-> "",
                   stats |-> stats', visible |-> TRUE]
    /\ pc' = "done"
    /\ UNCHANGED <<app, raised, input_text, summary, file_text, gui_in>>
    /\ UNCHANGED <<facadeVars, cliVars, evalVars>>

NextGui == GuiSource \/ GuiConstruct \/ GuiSummarize \/ GuiReturn

SpecGui == InitGui /\ [][NextGui]_vars

\* both interactive adapters
SpecAdapters == (InitCli \/ InitGui) /\ [][NextCli \/ NextGui]_vars

----------------------------------------------------------------------------
(* evaluate_rouge.py: main *)

\* the three built-in samples; each text and reference is cut to its first word
SAMPLE_DATA ==
    <<[id |-> "sample_1", text |-> <<"T", "h", "e">>, reference |-> <<"T", "h", "e">>],
      [id |-> "sample_2", text |-> <<"A">>,
       reference |-> <<"R", "e", "s", "e", "a", "r", "c", "h", "e", "r", "s">>],
      [id |-> "sample_3", text |-> <<"D", "u", "r", "i", "n", "g">>,
       reference |-> <<"S", "t", "a", "k", "e", "h", "o", "l", "d", "e", "r", "s">>]>>

Min(a, b) == IF a < b THEN a ELSE b
Max(a, b) == IF a > b THEN a ELSE b

\* list[:n]
SliceTo(s, n) ==
    IF n >= 0 THEN SubSeq(s, 1, Min(n, Len(s))) ELSE SubSeq(s, 1, Max(0, Len(s) + n))

\* variant without the max(1, ...) clamp
SelectSamplesUnclamped(lim) == SliceTo(SAMPLE_DATA, Min(lim, Len(SAMPLE_DATA)))

\* line 88
SelectSamples(lim) == SliceTo(SAMPLE_DATA, Max(1, Min(lim, Len(SAMPLE_DATA))))

Limits == (0 - MaxLimit)..MaxLimit

InitEval ==
    /\ app = "eval"
    /\ pc = "import"
    /\ FacadeIdle
    /\ input_text = NoText
    /\ summary = NoText
    /\ stats = <<>>
    /\ file_text = NoText
    /\ limit \in Limits
    /\ samples = <<>>
    /\ predictions = <<>>
    /\ references = <<>>
    /\ CliIdle /\ GuiIdle

\* line 12: the annotation List[Dict[str, str]] names what the file never imports;
\* an interpreter that evaluates annotations at once raises NameError, one that
\* defers them goes on
EvalImport ==
    /\ app = "eval" /\ pc = "import"
    /\ \E deferred \in BOOLEAN :
         IF deferred
         THEN pc' = "setup" /\ UNCHANGED raised
         ELSE pc' = "done" /\ raised' = "NameError: name 'List' is not defined"
    /\ UNCHANGED <<app, input_text, summary, stats, file_text>>
    /\ UNCHANGED <<facadeVars, cliVars, guiVars, evalVars>>

\* lines 76-90: parse_args (--model is one of the three keywords), the summarizer,
\* the slice of SAMPLE_DATA
EvalSetup ==
    /\ app = "eval" /\ pc = "setup"
    /\ \E kw \in Keywords, do_sample \in BOOLEAN, loadOk \in BOOLEAN :
         LET r == TextSummarizerInit(build_model_name(kw), 120, 40, do_sample, loadOk)
         IN  /\ ts' = r.self
             /\ pipelineLoads' = r.loads
             /\ raised' = r.raised
             /\ IF loadOk
                THEN /\ samples' = SelectSamples(limit)
                     /\ pc' = "loop"
                ELSE /\ UNCHANGED samples
                     /\ pc' = "done"
    /\ UNCHANGED <<app, pipelineCalls, input_text, summary, stats, file_text, limit,
                   predictions, references>>
    /\ UNCHANGED <<cliVars, guiVars>>

\* lines 95-98: one iteration
EvalIterate ==
    /\ app = "eval" /\ pc = "loop"
    /\ Len(predictions) < Len(samples)
    /\ LET s == samples[Len(predictions) + 1]
       IN  \E outcome \in PipelineOutcomes :
             LET r == Summarize(ts, s.text, pipelineCalls, outcome)
             IN  /\ pipelineCalls' = r.calls
                 /\ raised' = r.raised
                 /\ IF r.raised = "None"
                    THEN /\ predictions' = Append(predictions, r.value)
                         /\ references' = Append(references, s.reference)
                         /\ pc' = "loop"
                    ELSE /\ UNCHANGED <<predictions, references>>
                         /\ pc' = "done"
    /\ UNCHANGED <<app, ts, pipelineLoads, input_text, summary, stats, file_text, limit,
                   samples>>
    /\ UNCHANGED <<cliVars, guiVars>>

\* lines 107-114: the lists go to rouge.compute
EvalScore ==
    /\ app = "eval" /\ pc = "loop"
    /\ Len(predictions) = Len(samples)
    /\ pc' = "scored"
    /\ UNCHANGED <<app, raised, input_text, summary, stats, file_text>>
    /\ UNCHANGED <<facadeVars, cliVars, guiVars, evalVars>>

NextEval == EvalImport \/ EvalSetup \/ EvalIterate \/ EvalScore

SpecEval == InitEval /\ [][NextEval]_vars

----------------------------------------------------------------------------
(* Vocabulary of the properties *)

\* the number of whitespace-separated words of a text: the positions where a word starts
WordCount(t) ==
    Cardinality({i \in 1..Len(t) :
                    t[i] \notin Whitespace /\ (i = 1 \/ t[i - 1] \in Whitespace)})

\* empty, or nothing but whitespace
OnlyWhitespace(t) == \A i \in 1..Len(t) : t[i] \in Whitespace

\* the identifier each keyword stands for, the default for every other keyword
IdentifierOf(kw) ==
    CASE kw = KW_bart       -> "facebook/bart-large-cnn"
      [] kw = KW_distilbart -> "sshleifer/distilbart-cnn-12-6"
      [] kw = KW_t5         -> "t5-small"
      [] OTHER              -> "facebook/bart-large-cnn"

\* the command line as typed
HasFlag(f) == \E p \in cmd.pairs : p[1] = f
ValueOf(f) == (CHOOSE p \in cmd.pairs : p[1] = f)[2]
AllDigits(tok) == tok # <<>> /\ \A i \in 1..Len(tok) : IsDigit(tok[i])

\* no value typed after a flag is itself one of the four flags
PlainValues == \A p \in cmd.pairs : p[2] \notin Flags

MissingInput   == cmd.positionals = <<>>
UnknownModel   == HasFlag(FLAG_MODEL) /\ Lower(ValueOf(FLAG_MODEL)) \notin Keywords
MalformedInt   == \E f \in {FLAG_MAX, FLAG_MIN} : HasFlag(f) /\ ~AllDigits(ValueOf(f))
MissingValue   == cmd.dangling # <<>>
ArgumentError  == MissingInput \/ UnknownModel \/ MalformedInt \/ MissingValue

CliDone == app = "cli" /\ pc = "done"
Scanning == pc \in {"model", "max", "min", "out", "check"}

Position(s, x) == CHOOSE i \in 1..Len(s) : s[i] = x

----------------------------------------------------------------------------
(* C1 *)

\* C1: summarize on an empty or whitespace-only text raises ValueError
\* "Input text is empty." without any call of the pipeline; on any other text the
\* pipeline is called exactly once, with the text, the configured max_length,
\* min_length, do_sample and truncation=True, whether or not that call fails.
C1_EmptyInputBeforePipeline ==
    app = "facade" =>
        /\ pc # "done" => pipelineCalls = <<>>
        /\ (pc = "done" /\ ts.built) =>
              IF OnlyWhitespace(input_text)
              THEN raised = EmptyInputError /\ pipelineCalls = <<>>
              ELSE /\ raised # EmptyInputError
                   /\ pipelineCalls =
                        <<[text |-> input_text, max_length |-> ts.max_length,
                           min_length |-> ts.min_length, do_sample |-> ts.do_sample,
                           truncation |-> TRUE]>>

C1_Witness ==
    /\ app = "facade" /\ pc = "done" /\ ts.built
    /\ input_text # <<>> /\ OnlyWhitespace(input_text)
    /\ raised = EmptyInputError /\ pipelineCalls = <<>>

----------------------------------------------------------------------------
(* C2 *)

\* C2: with N and M the word counts of original and summary,
\* compute_length_reduction returns (N, M, 1 - M/N) when N > 0 (negative when
\* M > N, zero when the summary is the original) and (0, M, 0.0) when N = 0, and
\* never divides by zero.
C2_LengthReduction ==
    (app = "metric" /\ pc = "done") =>
        LET N == WordCount(input_text)
            M == WordCount(summary)
        IN  /\ stats[1] = N
            /\ stats[2] = M
            /\ stats[3][2] # 0
            /\ IF N > 0
               THEN /\ FracEq(stats[3], Frac(N - M, N))
                    /\ M > N => FracLt(stats[3], Frac(0, 1))
                    /\ summary = input_text => FracEq(stats[3], Frac(0, 1))
               ELSE stats[3] = Frac(0, 1)

C2_Witness ==
    /\ app = "metric" /\ pc = "done"
    /\ stats[1] = 1 /\ stats[2] = 2
    /\ FracEq(stats[3], Frac(-1, 1))

----------------------------------------------------------------------------
(* C3 *)

----------------------------------------------------------------------------
(* C4 *)

\* C4 as stated: in the CLI and in the GUI every model keyword, recognised or not,
\* resolves (case-insensitively) to an identifier, the unrecognised ones to the
\* default facebook/bart-large-cnn, and resolution never fails.
C4_ResolutionTotalEverywhere ==
    /\ (app = "gui" /\ pipelineLoads # <<>>) =>
          pipelineLoads[1] = IdentifierOf(Lower(gui_in.model_choice))
    /\ (app = "cli" /\ pc # "model" /\ HasFlag(FLAG_MODEL)) =>
          /\ model_name = IdentifierOf(Lower(ValueOf(FLAG_MODEL)))
          /\ ~Contains(stdout, "Unknown model")

\* C4 as amended: the GUI's build_model_name is total, with bart, distilbart and t5
\* (in any letter case) giving their identifiers and every other keyword the
\* default; the CLI gives the same identifiers for the three keywords but, on any
\* other keyword, prints "Unknown model" and exits with status 1 before any model
\* is loaded.
C4_ModelResolution ==
    /\ (app = "gui" /\ pipelineLoads # <<>>) =>
          /\ pipelineLoads[1] = IdentifierOf(Lower(gui_in.model_choice))
          /\ pipelineLoads[1] \in ModelIdentifiers
    /\ (app = "gui" /\ pc = "construct") => ENABLED GuiConstruct
    /\ (app = "cli" /\ pc # "model" /\ HasFlag(FLAG_MODEL)) =>
          IF Lower(ValueOf(FLAG_MODEL)) \in Keywords
          THEN /\ model_name = IdentifierOf(Lower(ValueOf(FLAG_MODEL)))
               /\ ~Contains(stdout, "Unknown model")
          ELSE /\ pc = "done" /\ exit_status = 1
               /\ stdout = <<"Unknown model">>
               /\ pipelineLoads = <<>>
    /\ (app = "cli" /\ ~HasFlag(FLAG_MODEL) /\ cmd.dangling # <<FLAG_MODEL>>) =>
          model_name = DEFAULT_MODEL

C4_Witness ==
    /\ CliDone /\ HasFlag(FLAG_MODEL) /\ ValueOf(FLAG_MODEL) = TOK_gpt
    /\ Len(cmd.positionals) > 0
    /\ exit_status = 1 /\ stdout = <<"Unknown model">>

----------------------------------------------------------------------------
(* C5 *)

\* what a run of the scans leaves: the exit and its message, or the parsed
\* configuration and the remaining text
Outcome(c) ==
    IF Exited(c)
    THEN [exit_status |-> c.exit_status, stdout |-> c.stdout, model_name |-> "",
          max_length |-> 0, min_length |-> 0, output_file |-> NoText, text |-> NoText]
    ELSE [exit_status |-> -1, stdout |-> c.stdout, model_name |-> c.model_name,
          max_length |-> c.max_length, min_length |-> c.min_length,
          output_file |-> c.output_file, text |-> ArgText(c.argv)]

\* the scans of this run are over: they exited, or the script has reached line 81
ScansOver == app = "cli" /\ (pc = "resolve" \/ (pc = "done" /\ ~Scanning /\ input_text = NoText
                                                /\ raised = "None" /\ exit_status = 1))

SameOutcomeInEveryOrder ==
    \A a \in Arrangements(cmd) : Outcome(ParseArgs(a)) = Outcome(CliState)

\* C5 as stated: two command lines that differ only in the order of their
\* flag/value pairs, and in where the pairs stand among the positionals, give the
\* same model_name, max_length, min_length, output_file and remaining text, or the
\* same exit.
C5_OrderIndependentAlways == ScansOver => SameOutcomeInEveryOrder

\* C5 as amended: the same, for command lines in which each flag occurs at most
\* once and no flag's value is itself one of the four flags.
C5_OrderIndependent == (ScansOver /\ PlainValues) => SameOutcomeInEveryOrder

C5_Witness ==
    /\ app = "cli" /\ pc = "resolve" /\ PlainValues
    /\ FlagsOf(cmd.pairs) = {FLAG_MODEL, FLAG_MAX}
    /\ cmd.line = <<PROG, FLAG_MAX, TOK_80, TOK_hello, FLAG_MODEL, TOK_T5>>
    /\ model_name = "t5-small" /\ max_length = 80
    /\ argv = <<PROG, TOK_hello>>

----------------------------------------------------------------------------
(* C6 *)

----------------------------------------------------------------------------
(* C7 *)

GuiFileAndText == app = "gui" /\ gui_in.file_path # "" /\ gui_in.text \notin {NoText, <<>>}

\* C7: when summarize_interface gets a file path and non-empty free text, the text
\* summarized and measured is the file's contents; when the file cannot be read or
\* holds only whitespace the call returns a message, hides the download control
\* and summarizes nothing, the free text included.
C7_FilePriority ==
    GuiFileAndText =>
        /\ \A i \in 1..Len(pipelineCalls) : pipelineCalls[i].text = file_text
        /\ input_text # NoText => input_text = file_text
        /\ stats # <<>> => stats[1] = WordCount(file_text)
        /\ (pc # "source" /\ (file_text = NoText \/ OnlyWhitespace(file_text))) =>
              /\ pc = "done"
              /\ gui_out.returned /\ gui_out.message # "" /\ ~gui_out.visible
              /\ pipelineLoads = <<>> /\ pipelineCalls = <<>>

C7_Witness ==
    /\ GuiFileAndText /\ pc = "done"
    /\ ~OnlyWhitespace(gui_in.text)
    /\ file_text # NoText /\ OnlyWhitespace(file_text)
    /\ gui_out.message = "Please enter some text or upload a .txt file."

----------------------------------------------------------------------------
(* C8 *)

\* C8: every failure inside summarize_interface (blank input, unreadable file,
\* model load failure, inference failure) ends in a returned result: the call never
\* raises, the first output is an error message, the download control is hidden;
\* the control is made visible only after a successful summarization.
C8_FailuresBecomeMessages ==
    (app = "gui" /\ pc = "done") =>
        /\ raised = "None"
        /\ gui_out.returned
        /\ gui_out.visible => (summary # NoText /\ gui_out.summary = summary)
        /\ summary = NoText => (gui_out.message # "" /\ ~gui_out.visible)

----------------------------------------------------------------------------
(* C9 *)

NumSamples == Len(SAMPLE_DATA)

\* C9 as stated: the loop calls summarize once per evaluated sample, in list order
\* from the first sample; the number evaluated is min(limit, number of samples) and
\* never exceeds the limit; predictions and references are equally long.
C9_NeverMoreThanLimit ==
    (app = "eval" /\ pc = "scored") =>
        /\ Len(predictions) = Min(limit, NumSamples)
        /\ Len(predictions) <= limit
        /\ Len(references) = Len(predictions)

\* C9 as amended: the number evaluated is max(1, min(limit, number of samples)):
\* at most the limit when the limit is 1 or more, and one sample when the limit is
\* 0 or negative. The rest stands: one summarize call per evaluated sample, in list
\* order from the first, and predictions and references equally long.
C9_LoopPerSample ==
    app = "eval" =>
        /\ Len(references) = Len(predictions)
        /\ Len(pipelineCalls) \in {Len(predictions), Len(predictions) + 1}
        /\ Len(pipelineCalls) > Len(predictions) => raised # "None"
        /\ \A i \in 1..Len(pipelineCalls) : pipelineCalls[i].text = SAMPLE_DATA[i].text
        /\ \A i \in 1..Len(references) : references[i] = SAMPLE_DATA[i].reference
        /\ pc = "scored" =>
              /\ Len(predictions) = Max(1, Min(limit, NumSamples))
              /\ Len(pipelineCalls) = Len(predictions)
              /\ limit >= 1 => Len(predictions) <= limit

C9_Witness ==
    /\ app = "eval" /\ pc = "scored"
    /\ limit <= 0
    /\ Len(predictions) = 1 /\ Len(pipelineCalls) = 1

----------------------------------------------------------------------------
(* C10 *)

\* C10: once summarize has returned, a failed write of the --out file is reported
\* on standard output and the run goes on: the stats block, then the report, then
\* the summary are printed and the process ends with status 0. The stats block
\* always precedes the summary, and the file is written only after summarize has
\* returned.
C10_WriteFailureContinues ==
    app = "cli" =>
        /\ Contains(stdout, "Error writing to file") =>
              /\ pc \in {"summary", "done"}
              /\ written = <<>>
              /\ pc = "summary" => ENABLED CliPrintSummary
              /\ pc = "done" =>
                    /\ exit_status = 0
                    /\ SubSeq(stdout, Len(stdout) - 2, Len(stdout)) =
                          <<"=== STATS ===", "Error writing to file", "=== SUMMARY ===">>
        /\ Contains(stdout, "=== SUMMARY ===") =>
              /\ Contains(stdout, "=== STATS ===")
              /\ Position(stdout, "=== STATS ===") < Position(stdout, "=== SUMMARY ===")
        /\ written # <<>> =>
              /\ summary # NoText /\ raised = "None"
              /\ Len(pipelineCalls) = 1
              /\ written = <<<<output_file, summary>>>>
        /\ (pc = "done" /\ summary # NoText) =>
              /\ exit_status = 0
              /\ stdout[Len(stdout)] = "=== SUMMARY ==="

C10_Witness ==
    /\ CliDone /\ exit_status = 0
    /\ output_file = TOK_out
    /\ Contains(stdout, "Error writing to file")
    /\ stdout[Len(stdout)] = "=== SUMMARY ==="

====
